---- MODULE Spec2Model ----
(***************************************************************************)
(* Model of scripts/curation/bird_schema_converter_postgres.py: the script *)
(* entry point, get_bird_pg_schema_dict and the catalog queries it issues. *)
(*                                                                         *)
(* Strings the code lower-cases, upper-cases, sorts or renders are         *)
(* sequences of code points, so that str.lower, str.upper, sorted and str  *)
(* are computed, not assumed.  Strings only compared for equality (column  *)
(* names, constraint names, schema names) are TLA+ strings.                *)
(***************************************************************************)
EXTENDS Integers, Sequences, FiniteSets, Bags, TLC

\* ------------------------------------------------------------------ bounds
MaxDbs == 2
MaxNames == 3
MaxRows == 6

\* LIMIT of the sampling query
SampleLimit == 5

\* ------------------------------------------------------- python primitives
NoneV == "<None>"
Unbound == "<unbound>"

EmptyMap == [x \in {} |-> x]

Put(map, k, v) == [x \in (DOMAIN map) \cup {k} |-> IF x = k THEN v ELSE map[x]]

\* str.lower / str.upper on ASCII code points
Lower(s) == [i \in DOMAIN s |-> IF s[i] >= 65 /\ s[i] <= 90 THEN s[i] + 32 ELSE s[i]]

Upper(s) == [i \in DOMAIN s |-> IF s[i] >= 97 /\ s[i] <= 122 THEN s[i] - 32 ELSE s[i]]

\* str < str : lexicographic by code point
RECURSIVE StrLess(_, _)
StrLess(a, b) ==
    IF a = <<>> THEN b # <<>>
    ELSE IF b = <<>> THEN FALSE
    ELSE IF Head(a) # Head(b) THEN Head(a) < Head(b)
    ELSE StrLess(Tail(a), Tail(b))

\* sorted(S) for a collection of distinct strings
RECURSIVE Sorted(_)
Sorted(S) ==
    IF S = {} THEN <<>>
    ELSE LET m == CHOOSE x \in S : \A y \in S \ {x} : StrLess(x, y)
         IN  <<m>> \o Sorted(S \ {m})

\* values of a cell as psycopg2 hands them to Python
NULL == [k |-> "null"]
IntV(n) == [k |-> "int", i |-> n]
TextV(s) == [k |-> "text", s |-> s]

RECURSIVE Digits(_)
Digits(n) == IF n < 10 THEN <<48 + n>> ELSE Digits(n \div 10) \o <<48 + (n % 10)>>

\* str(value): None -> "None", int -> decimal, str -> itself
Str(v) ==
    CASE v.k = "null" -> <<78, 111, 110, 101>>
      [] v.k = "int"  -> IF v.i < 0 THEN <<45>> \o Digits(-v.i) ELSE Digits(v.i)
      [] v.k = "text" -> v.s

\* ascending sequence of a set of integers
RECURSIVE Ascending(_)
Ascending(S) ==
    IF S = {} THEN <<>>
    ELSE LET m == CHOOSE x \in S : \A y \in S : x <= y
         IN  <<m>> \o Ascending(S \ {m})

\* --------------------------------------------------------- the live server
\* table names
T_Cu == <<67, 117>>
T_cu == <<99, 117>>
T_CU == <<67, 85>>
T_gh == <<103, 104>>
T_pa == <<112, 97>>
T_qa == <<113, 97>>
T_ch == <<99, 104>>
T_ta == <<116, 97>>
T_tb == <<116, 98>>
T_pv == <<112, 118>>

Ty_int == <<105, 110, 116>>
Ty_text == <<116, 101, 120, 116>>

Col(name, type, fill) == [column_name |-> name, data_type |-> type, fill |-> fill]

Pub(name) == [table_schema |-> "public", table_name |-> name]

PrimaryKey(cname, t, cols) ==
    [constraint_name |-> cname, table_name |-> t, constraint_type |-> "PRIMARY KEY",
     columns |-> cols, ref_table |-> t, ref_columns |-> cols]

ForeignKey(cname, t, cols, rt, rcols) ==
    [constraint_name |-> cname, table_name |-> t, constraint_type |-> "FOREIGN KEY",
     columns |-> cols, ref_table |-> rt, ref_columns |-> rcols]

\* a server whose public tables are `names`, each with one id column
PlainServer(names) ==
    [tables      |-> {Pub(n) : n \in names} \cup {[table_schema |-> "private", table_name |-> T_pv]},
     columns     |-> [n \in names \cup {T_pv} |-> <<Col("id", Ty_int, "sparse")>>],
     constraints |-> {},
     expect      |-> <<>>]

\* every set of live names that differ by case only
NameServers == {PlainServer(S) : S \in SUBSET {T_CU, T_Cu, T_cu}}

\* composite primary key, composite foreign key, a column in two foreign keys
CompositeServer ==
    [tables      |-> {Pub(T_pa), Pub(T_qa), Pub(T_ch)},
     columns     |-> (T_pa :> <<Col("x", Ty_int, "sparse"), Col("y", Ty_text, "nulls")>>)
                  @@ (T_qa :> <<Col("z", Ty_int, "sparse")>>)
                  @@ (T_ch :> <<Col("id", Ty_int, "ints"), Col("a", Ty_int, "sparse"),
                               Col("b", Ty_text, "nulls")>>),
     constraints |-> {PrimaryKey("pa_pkey", T_pa, <<"x", "y">>),
                      PrimaryKey("qa_pkey", T_qa, <<"z">>),
                      PrimaryKey("ch_pkey", T_ch, <<"id">>),
                      ForeignKey("ch_ab_fkey", T_ch, <<"a", "b">>, T_pa, <<"x", "y">>),
                      ForeignKey("ch_a_fkey", T_ch, <<"a">>, T_qa, <<"z">>)},
     expect      |-> <<T_ch, T_pa>>]

\* single-column keys only, every constraint name unique
SimpleServer ==
    [tables      |-> {Pub(T_pa), Pub(T_ch)},
     columns     |-> (T_pa :> <<Col("x", Ty_int, "ints"), Col("y", Ty_text, "sparse")>>)
                  @@ (T_ch :> <<Col("id", Ty_int, "sparse"), Col("a", Ty_int, "nulls")>>),
     constraints |-> {PrimaryKey("pa_pkey", T_pa, <<"x">>),
                      PrimaryKey("ch_pkey", T_ch, <<"id">>),
                      ForeignKey("ch_a_fkey", T_ch, <<"a">>, T_pa, <<"x">>)},
     expect      |-> <<T_pa, T_ch>>]

\* the foreign key of tb carries the name of the primary key of ta
SharedNameServer ==
    [tables      |-> {Pub(T_ta), Pub(T_tb)},
     columns     |-> (T_ta :> <<Col("id", Ty_int, "sparse"), Col("ref", Ty_int, "nulls")>>)
                  @@ (T_tb :> <<Col("id", Ty_int, "sparse"), Col("ref", Ty_int, "sparse")>>),
     constraints |-> {PrimaryKey("k", T_ta, <<"id">>),
                      ForeignKey("k", T_tb, <<"ref">>, T_ta, <<"id">>)},
     expect      |-> <<T_ta, T_tb>>]

CatalogServers == {CompositeServer, SimpleServer, SharedNameServer}

\* contents of a column of a table of n rows
CellValue(fill, i) ==
    CASE fill = "ints"   -> IntV(7 * i - 10)
      [] fill = "sparse" -> IF i % 2 = 1 THEN NULL ELSE TextV(<<118, 48 + i>>)
      [] fill = "nulls"  -> NULL

ColumnData(col, n) == [i \in 1..n |-> CellValue(col.fill, i)]

\* information_schema.tables WHERE table_schema = 'public'
PublicTables(server) == {t.table_name : t \in {u \in server.tables : u.table_schema = "public"}}

\* information_schema.table_constraints
TableConstraints(server) ==
    {[constraint_name |-> k.constraint_name, table_name |-> k.table_name,
      constraint_type |-> k.constraint_type] : k \in server.constraints}

\* information_schema.key_column_usage
KeyColumnUsage(server) ==
    UNION {{[constraint_name |-> k.constraint_name, table_name |-> k.table_name,
             column_name |-> k.columns[i], ordinal_position |-> i] : i \in DOMAIN k.columns}
           : k \in server.constraints}

\* information_schema.constraint_column_usage (owner keeps rows of distinct
\* constraints distinct, as the view does not merge them)
ConstraintColumnUsage(server) ==
    UNION {{[constraint_name |-> k.constraint_name, table_name |-> k.ref_table,
             column_name |-> k.ref_columns[i], owner |-> k.table_name] : i \in DOMAIN k.ref_columns}
           : k \in server.constraints}

\* --------------------------------------------------------------- the input
DbId(i) == <<100, 98, 48 + i>>

ManifestNames == {T_Cu, T_cu, T_gh}

NameLists == UNION {[1..n -> ManifestNames] : n \in 0..MaxNames}

TotalNames(ls) == LET RECURSIVE Sum(_)
                      Sum(i) == IF i = 0 THEN 0 ELSE Len(ls[i]) + Sum(i - 1)
                  IN  Sum(Len(ls))

\* manifests of at most MaxDbs databases naming at most MaxNames tables in
\* all; db_id is the key of the output document and each database is listed
\* once
Manifests ==
    UNION {{[i \in 1..n |-> [db_id |-> DbId(i), table_names_original |-> ls[i]]]
            : ls \in {l \in [1..n -> NameLists] : TotalNames(l) <= MaxNames}}
           : n \in 0..MaxDbs}

VARIABLES
    args_pg_conn_str,   \* --pg_conn_str, NoneV when the flag is absent
    environ,            \* POSTGRES_CONNECTION_STRING, NoneV when unset
    dev_tables_json,    \* the manifest
    server,             \* the live database: catalog and row count
    outFile0,           \* the output file before the run
    outFile,            \* the output file
    pc, err,
    pg_conn_str,        \* module-level name of the script
    conn, opens, closes,
    pg_tables, pg_tables_lower,
    schema,
    dbIdx, tblIdx,      \* positions of the two for loops
    table,              \* resolved table name being filled
    primary_keys, foreign_keys_map, colrows, columns, colIdx

inputs == <<args_pg_conn_str, environ, dev_tables_json, server, outFile0>>
loopvars == <<dbIdx, tblIdx, table>>
colvars == <<primary_keys, foreign_keys_map, colrows, columns, colIdx>>
connvars == <<conn, opens, closes>>
vars == <<inputs, outFile, pc, err, pg_conn_str, connvars, pg_tables, pg_tables_lower,
          schema, loopvars, colvars>>

Absent == [kind |-> "absent", doc |-> EmptyMap]
OldFile == [kind |-> "old", doc |-> EmptyMap]

Servers ==
    {[catalog |-> c, nrows |-> 1, manifest |-> m] : c \in NameServers, m \in Manifests}
    \cup
    {[catalog |-> c, nrows |-> n,
      manifest |-> <<[db_id |-> DbId(1), table_names_original |-> c.expect]>>]
     : c \in CatalogServers, n \in 0..MaxRows}

Init ==
    /\ args_pg_conn_str \in {NoneV, "dsn_flag"}
    /\ environ \in {NoneV, "", "dsn_env"}
    /\ \E s \in Servers :
          /\ server = [catalog |-> s.catalog, nrows |-> s.nrows]
          /\ dev_tables_json = s.manifest
    /\ outFile0 \in {Absent, OldFile}
    /\ outFile = outFile0
    /\ pc = "main"
    /\ err = "none"
    /\ pg_conn_str = Unbound
    /\ conn = "none" /\ opens = 0 /\ closes = 0
    /\ pg_tables = <<>> /\ pg_tables_lower = EmptyMap
    /\ schema = EmptyMap
    /\ dbIdx = 0 /\ tblIdx = 0 /\ table = <<>>
    /\ primary_keys = {} /\ foreign_keys_map = EmptyMap
    /\ colrows = <<>> /\ columns = <<>> /\ colIdx = 0

\* ------------------------------------------------------------- the queries
\* get_primary_keys: tc JOIN kcu ON constraint_name, tc.table_name = %s
PrimaryKeyRows(srv, t) ==
    {r[2].column_name :
        r \in {j \in TableConstraints(srv.catalog) \X KeyColumnUsage(srv.catalog) :
                 /\ j[1].constraint_name = j[2].constraint_name
                 /\ j[1].table_name = t
                 /\ j[1].constraint_type = "PRIMARY KEY"}}

\* get_foreign_keys_by_column: tc JOIN kcu JOIN ccu ON constraint_name,
\* kcu.table_name = %s
ForeignKeyRows(srv, t) ==
    {j \in TableConstraints(srv.catalog) \X KeyColumnUsage(srv.catalog)
             \X ConstraintColumnUsage(srv.catalog) :
        /\ j[1].constraint_name = j[2].constraint_name
        /\ j[3].constraint_name = j[1].constraint_name
        /\ j[1].constraint_type = "FOREIGN KEY"
        /\ j[2].table_name = t}

ForeignKeyRef(j) == [target_table |-> j[3].table_name, target_column |-> j[3].column_name]

\* fk_map.setdefault(col, []).append(...): the list of a column, as a bag
\* (the query has no ORDER BY)
FkMap(rows) ==
    [col \in {j[2].column_name : j \in rows} |->
        LET mine == {j \in rows : j[2].column_name = col}
        IN  [ref \in {ForeignKeyRef(j) : j \in mine} |->
                Cardinality({j \in mine : ForeignKeyRef(j) = ref})]]

\* information_schema.columns WHERE table_name = %s ORDER BY ordinal_position
\* (the servers modelled hold each table name in one schema only)
ColumnRows(srv, t) == IF t \in DOMAIN srv.catalog.columns THEN srv.catalog.columns[t] ELSE <<>>

Min(a, b) == IF a <= b THEN a ELSE b

\* the sampling query without its IS NOT NULL filter
SampleQueryNoFilter(data) ==
    {S \in SUBSET (DOMAIN data) : Cardinality(S) = Min(SampleLimit, Len(data))}

\* SELECT "c" FROM "t" WHERE "c" IS NOT NULL LIMIT 5: the row sets the server
\* may return
SampleQuery(data) ==
    LET nonnull == {i \in DOMAIN data : data[i].k # "null"}
    IN  {S \in SUBSET nonnull : Cardinality(S) = Min(SampleLimit, Cardinality(nonnull))}

\* samples = [str(row[0]) for row in cur.fetchall()], the rows taken in
\* table order
Samples(data, S) == LET idx == Ascending(S) IN [i \in DOMAIN idx |-> Str(data[idx[i]])]

ColumnDescriptor(c, pks, fkmap, samples) ==
    [name          |-> c.column_name,
     type          |-> Upper(c.data_type),
     primary_key   |-> c.column_name \in pks,
     foreign_keys  |-> IF c.column_name \in DOMAIN fkmap THEN fkmap[c.column_name] ELSE EmptyBag,
     description   |-> <<>>,
     value_samples |-> samples]

TableRecord(t, cols) == [name |-> t, columns |-> cols, description |-> <<>>, table_str |-> <<>>]

\* ------------------------------------------------------- name reconciliation
Range(s) == {s[i] : i \in DOMAIN s}

\* a mapping that keeps the first name of each lower-cased key
RECURSIVE FirstWinsFrom(_, _, _)
FirstWinsFrom(ts, i, d) ==
    IF i > Len(ts) THEN d
    ELSE FirstWinsFrom(ts, i + 1, IF Lower(ts[i]) \in DOMAIN d THEN d ELSE Put(d, Lower(ts[i]), ts[i]))

LowerMapFirstWins(ts) == FirstWinsFrom(ts, 1, EmptyMap)

\* {t.lower(): t for t in pg_tables}
RECURSIVE LowerMapFrom(_, _, _)
LowerMapFrom(ts, i, d) ==
    IF i > Len(ts) THEN d ELSE LowerMapFrom(ts, i + 1, Put(d, Lower(ts[i]), ts[i]))

LowerMap(ts) == LowerMapFrom(ts, 1, EmptyMap)

\* a resolution that stops at the exact match
ResolveExactOnly(t, ts, lower) ==
    IF t \in Range(ts) THEN [found |-> TRUE, name |-> t] ELSE [found |-> FALSE, name |-> t]

\* lines 185-195: the name to fill, or a skip
Resolve(t, ts, lower) ==
    IF t \in Range(ts) THEN [found |-> TRUE, name |-> t]
    ELSE IF Lower(t) \in DOMAIN lower THEN [found |-> TRUE, name |-> lower[Lower(t)]]
    ELSE [found |-> FALSE, name |-> t]

\* ------------------------------------------------------------- the actions
\* a handler that goes on to write what was gathered
RaiseThenWrite(kind) == pc' = "write" /\ err' = kind

\* an exception no handler catches: the process ends
Raise(kind) == pc' = "aborted" /\ err' = kind

CurDb == dev_tables_json[dbIdx]

\* the entry filed under the manifest's spelling instead of the resolved one
StoreUnderManifestName(sch, db, key, rec) ==
    [sch EXCEPT ![db].tables = Put(@, CurDb.table_names_original[tblIdx], rec)]

\* schema[db_id]["tables"][table] = fill_table_info(cur, table)
StoreUnder(sch, db, key, rec) == [sch EXCEPT ![db].tables = Put(@, key, rec)]

\* an unresolved name recorded as an empty entry
SkipTableStoresEmpty ==
    /\ tblIdx' = tblIdx + 1
    /\ schema' = [schema EXCEPT ![CurDb.db_id].tables =
                     Put(@, CurDb.table_names_original[tblIdx],
                         [name |-> CurDb.table_names_original[tblIdx], columns |-> <<>>,
                          description |-> <<>>, table_str |-> <<>>])]
    /\ UNCHANGED <<pc, err, dbIdx, table>>

\* lines 193-195: warning, continue
SkipTable ==
    /\ tblIdx' = tblIdx + 1
    /\ UNCHANGED <<pc, err, dbIdx, table, schema>>

\* __main__, lines 234-243
Main_ResolveConnStr ==
    /\ pc = "main"
    /\ IF args_pg_conn_str = NoneV
       THEN IF environ \in {NoneV, ""}
            THEN /\ pg_conn_str' = environ
                 /\ Raise("RuntimeError")
            ELSE /\ pg_conn_str' = args_pg_conn_str
                 /\ pc' = "call" /\ err' = err
       ELSE /\ pc' = "call"
            /\ UNCHANGED <<pg_conn_str, err>>
    /\ UNCHANGED <<inputs, outFile, connvars, pg_tables, pg_tables_lower, schema, loopvars, colvars>>

\* __main__, line 245: the argument is evaluated, then the function entered
Main_Call ==
    /\ pc = "call"
    /\ IF pg_conn_str = Unbound
       THEN Raise("NameError")
       ELSE pc' = "connect" /\ err' = err
    /\ UNCHANGED <<inputs, outFile, pg_conn_str, connvars, pg_tables, pg_tables_lower, schema,
                   loopvars, colvars>>

\* lines 169-171: psycopg2.connect either returns a connection or raises.
\* The library is not part of the repository: both outcomes are open for
\* every argument (psycopg2 itself answers a None dsn with TypeError, which
\* is the raising outcome).
Connect ==
    /\ pc = "connect"
    /\ \/ /\ conn' = "open" /\ opens' = opens + 1 /\ closes' = closes
          /\ pc' = "tables" /\ err' = err
       \/ /\ Raise("connect")
          /\ UNCHANGED connvars
    /\ UNCHANGED <<inputs, outFile, pg_conn_str, pg_tables, pg_tables_lower, schema, loopvars, colvars>>

\* lines 173-176
GetTables ==
    /\ pc = "tables"
    /\ \/ /\ pg_tables' = Sorted(PublicTables(server.catalog))
          /\ pg_tables_lower' = LowerMap(pg_tables')
          /\ schema' = EmptyMap
          /\ dbIdx' = 1
          /\ pc' = "db" /\ err' = err
       \/ /\ Raise("get_tables")
          /\ UNCHANGED <<pg_tables, pg_tables_lower, schema, dbIdx>>
    /\ UNCHANGED <<inputs, outFile, pg_conn_str, connvars, tblIdx, table, colvars>>

\* lines 178-182: the outer for loop
NextDb ==
    /\ pc = "db"
    /\ IF dbIdx <= Len(dev_tables_json)
       THEN /\ schema' = Put(schema, CurDb.db_id, [name |-> CurDb.db_id, tables |-> EmptyMap])
            /\ tblIdx' = 1
            /\ pc' = "table"
       ELSE /\ pc' = "close"
            /\ UNCHANGED <<schema, tblIdx>>
    /\ UNCHANGED <<inputs, outFile, err, pg_conn_str, connvars, pg_tables, pg_tables_lower,
                   dbIdx, table, colvars>>

\* lines 184-195: the inner for loop and the reconciliation of one name
NextTable ==
    /\ pc = "table"
    /\ IF tblIdx <= Len(CurDb.table_names_original)
       THEN LET r == Resolve(CurDb.table_names_original[tblIdx], pg_tables, pg_tables_lower)
            IN  IF r.found
                THEN /\ table' = r.name
                     /\ pc' = "pk"
                     /\ UNCHANGED <<err, dbIdx, tblIdx, schema>>
                ELSE SkipTable
       ELSE /\ dbIdx' = dbIdx + 1
            /\ pc' = "db"
            /\ UNCHANGED <<err, tblIdx, table, schema>>
    /\ UNCHANGED <<inputs, outFile, pg_conn_str, connvars, pg_tables, pg_tables_lower, colvars>>

\* get_columns line 86, get_primary_keys
GetPrimaryKeys ==
    /\ pc = "pk"
    /\ \/ /\ primary_keys' = PrimaryKeyRows(server, table)
          /\ pc' = "fk" /\ err' = err
       \/ /\ Raise("get_primary_keys")
          /\ UNCHANGED primary_keys
    /\ UNCHANGED <<inputs, outFile, pg_conn_str, connvars, pg_tables, pg_tables_lower, schema,
                   loopvars, foreign_keys_map, colrows, columns, colIdx>>

\* get_columns line 87, get_foreign_keys_by_column
GetForeignKeys ==
    /\ pc = "fk"
    /\ \/ /\ foreign_keys_map' = FkMap(ForeignKeyRows(server, table))
          /\ pc' = "cols" /\ err' = err
       \/ /\ Raise("get_foreign_keys_by_column")
          /\ UNCHANGED foreign_keys_map
    /\ UNCHANGED <<inputs, outFile, pg_conn_str, connvars, pg_tables, pg_tables_lower, schema,
                   loopvars, primary_keys, colrows, columns, colIdx>>

\* get_columns lines 89-99
GetColumnRows ==
    /\ pc = "cols"
    /\ \/ /\ colrows' = ColumnRows(server, table)
          /\ columns' = <<>>
          /\ colIdx' = 1
          /\ pc' = "sample" /\ err' = err
       \/ /\ Raise("columns")
          /\ UNCHANGED <<colrows, columns, colIdx>>
    /\ UNCHANGED <<inputs, outFile, pg_conn_str, connvars, pg_tables, pg_tables_lower, schema,
                   loopvars, primary_keys, foreign_keys_map>>

\* get_columns lines 100-118: one turn of the column loop
SampleColumn ==
    /\ pc = "sample"
    /\ colIdx <= Len(colrows)
    /\ \/ /\ \E S \in SampleQuery(ColumnData(colrows[colIdx], server.nrows)) :
                columns' = Append(columns,
                    ColumnDescriptor(colrows[colIdx], primary_keys, foreign_keys_map,
                        Samples(ColumnData(colrows[colIdx], server.nrows), S)))
          /\ colIdx' = colIdx + 1
          /\ UNCHANGED <<pc, err>>
       \/ /\ Raise("sample")
          /\ UNCHANGED <<columns, colIdx>>
    /\ UNCHANGED <<inputs, outFile, pg_conn_str, connvars, pg_tables, pg_tables_lower, schema,
                   loopvars, primary_keys, foreign_keys_map, colrows>>

\* get_columns line 120, fill_table_info, line 197
StoreTable ==
    /\ pc = "sample"
    /\ colIdx > Len(colrows)
    /\ schema' = StoreUnder(schema, CurDb.db_id, table, TableRecord(table, columns))
    /\ tblIdx' = tblIdx + 1
    /\ pc' = "table"
    /\ UNCHANGED <<inputs, outFile, err, pg_conn_str, connvars, pg_tables, pg_tables_lower,
                   dbIdx, table, colvars>>

\* lines 199-201
Close ==
    /\ pc = "close"
    /\ conn' = "closed" /\ closes' = closes + 1 /\ opens' = opens
    /\ pc' = "write"
    /\ UNCHANGED <<inputs, outFile, err, pg_conn_str, pg_tables, pg_tables_lower, schema,
                   loopvars, colvars>>

\* __main__, lines 247-250
WriteOutput ==
    /\ pc = "write"
    /\ outFile' = [kind |-> "schema", doc |-> schema]
    /\ pc' = "done"
    /\ UNCHANGED <<inputs, err, pg_conn_str, connvars, pg_tables, pg_tables_lower, schema,
                   loopvars, colvars>>

Next ==
    \/ Main_ResolveConnStr
    \/ Main_Call
    \/ Connect
    \/ GetTables
    \/ NextDb
    \/ NextTable
    \/ GetPrimaryKeys
    \/ GetForeignKeys
    \/ GetColumnRows
    \/ SampleColumn
    \/ StoreTable
    \/ Close
    \/ WriteOutput

Spec == Init /\ [][Next]_vars

\* ---------------------------------------------------- vocabulary of claims
Live == PublicTables(server.catalog)

DbIdOf(i) == dev_tables_json[i].db_id

NamesOf(i) == dev_tables_json[i].table_names_original

Started(i) == DbIdOf(i) \in DOMAIN schema

TablesOf(i) == schema[DbIdOf(i)].tables

\* how many expected names of database i have been dealt with
Done(i) ==
    IF ~Started(i) THEN 0
    ELSE IF i < dbIdx THEN Len(NamesOf(i))
    ELSE IF i = dbIdx THEN tblIdx - 1
    ELSE 0

\* live names equal to T but for case
Matches(T) == {L \in Live : Lower(L) = Lower(T)}

Filling == pc \in {"pk", "fk", "cols", "sample"}

CurName == NamesOf(dbIdx)[tblIdx]

FirstOf(M) == CHOOSE L \in M : \A L2 \in M \ {L} : StrLess(L, L2)

LastOf(M) == CHOOSE L \in M : \A L2 \in M \ {L} : StrLess(L2, L)

\* every (table name, column descriptor) built so far
Described ==
    UNION {UNION {{<<T, schema[db].tables[T].columns[n]>> : n \in DOMAIN schema[db].tables[T].columns}
                  : T \in DOMAIN schema[db].tables}
           : db \in DOMAIN schema}
    \cup (IF pc = "sample" THEN {<<table, columns[n]>> : n \in DOMAIN columns} ELSE {})

ColumnOf(T, name) ==
    CHOOSE c \in Range(server.catalog.columns[T]) : c.column_name = name

\* what the constraints of the server declare
DeclaredPk(T) ==
    UNION {Range(k.columns) :
           k \in {q \in server.catalog.constraints :
                    q.constraint_type = "PRIMARY KEY" /\ q.table_name = T}}

DeclaredRefs(T, c) ==
    UNION {{[target_table |-> k.ref_table, target_column |-> k.ref_columns[i]]
            : i \in {x \in DOMAIN k.columns : k.columns[x] = c}}
           : k \in {q \in server.catalog.constraints :
                      q.constraint_type = "FOREIGN KEY" /\ q.table_name = T}}

\* ------------------------------------------------------------------ claims

\* C1: every expected name T already dealt with is filed under T itself when
\* T is a live name, else under a live name equal to T but for case, with the
\* record's name equal to its key, else not filed at all; and the name being
\* filled is T itself or, failing that, a live name equal to T but for case.
C1_TableNameResolution ==
    /\ \A i \in DOMAIN dev_tables_json : \A j \in 1..Done(i) :
          LET T == NamesOf(i)[j]
              tabs == TablesOf(i)
          IN  IF T \in Live THEN T \in DOMAIN tabs /\ tabs[T].name = T
              ELSE IF Matches(T) # {}
                   THEN \E L \in Matches(T) : L \in DOMAIN tabs /\ tabs[L].name = L
                   ELSE T \notin DOMAIN tabs
    /\ Filling => IF CurName \in Live THEN table = CurName ELSE table \in Matches(CurName)

\* the manifest says cu, the server has Cu only, and the written record is Cu
C1_Witness ==
    /\ pc = "done"
    /\ Live = {T_Cu}
    /\ \E i \in DOMAIN dev_tables_json :
          /\ NamesOf(i) = <<T_cu>>
          /\ DOMAIN outFile.doc[DbIdOf(i)].tables = {T_Cu}
          /\ outFile.doc[DbIdOf(i)].tables[T_Cu].name = T_Cu

C2_State ==
    /\ \A i \in DOMAIN dev_tables_json :
          /\ (i < dbIdx \/ (i = dbIdx /\ pc # "db")) => Started(i) /\ schema[DbIdOf(i)].name = DbIdOf(i)
          /\ \A j \in 1..Done(i) :
                LET T == NamesOf(i)[j]
                IN  IF Matches(T) = {} THEN T \notin DOMAIN TablesOf(i)
                    ELSE \E L \in Matches(T) : L \in DOMAIN TablesOf(i)
    /\ pc = "done" =>
          /\ outFile.kind = "schema"
          /\ DOMAIN outFile.doc = {DbIdOf(i) : i \in DOMAIN dev_tables_json}

C2_Step ==
    (pc = "table" /\ tblIdx <= Len(NamesOf(dbIdx)) /\ Matches(CurName) = {})
        => (pc' = "table" /\ tblIdx' = tblIdx + 1 /\ dbIdx' = dbIdx
            /\ schema' = schema /\ err' = "none")

\* C2: a name with no live counterpart is passed over: the step that meets it
\* leaves the schema as it was and moves to the next name without an error,
\* the name has no entry, the names that do resolve have theirs, and every
\* database reached has its record, all of them in the written document.
C2_SoftFailure == []C2_State /\ [][C2_Step]_vars

\* one database lost a ghost and kept Cu, another lost its only name
C2_Witness ==
    /\ pc = "done"
    /\ \E i1, i2 \in DOMAIN dev_tables_json :
          /\ T_gh \in Range(NamesOf(i1)) /\ DOMAIN outFile.doc[DbIdOf(i1)].tables = {T_Cu}
          /\ NamesOf(i2) = <<T_gh>> /\ outFile.doc[DbIdOf(i2)].tables = EmptyMap

\* C3: once the run has ended, normally or by an exception, every connection
\* opened has been closed, exactly once.
C3_ClosedOnEveryExit ==
    pc \in {"done", "aborted"} => (closes = opens /\ conn # "open")

\* no two constraints of the server share a name
UniqueConstraintNames ==
    \A k1, k2 \in server.catalog.constraints : k1.constraint_name = k2.constraint_name => k1 = k2

\* C4: the foreign_keys of a column are exactly the references its own
\* table's foreign-key constraints pair it with (stated for the servers whose
\* constraint names are all distinct, composite foreign keys included).
C4_ForeignKeysExact ==
    UniqueConstraintNames =>
        \A d \in Described : BagToSet(d[2].foreign_keys) = DeclaredRefs(d[1], d[2].name)

\* C5: the primary-key flag of a column is true exactly when the column is in
\* its own table's PRIMARY KEY constraint.
C5_PrimaryKeyFlag ==
    \A d \in Described : d[2].primary_key <=> (d[2].name \in DeclaredPk(d[1]))

\* C6: the string handed to psycopg2.connect is the flag when given and the
\* environment variable otherwise; a given flag never ends in a
\* configuration error; with neither set nothing is opened.
C6_ConnStrPrecedence ==
    /\ pc = "connect" =>
          pg_conn_str = (IF args_pg_conn_str # NoneV THEN args_pg_conn_str ELSE environ)
    /\ args_pg_conn_str # NoneV => err \notin {"NameError", "RuntimeError"}
    /\ (args_pg_conn_str = NoneV /\ environ \in {NoneV, ""}) =>
          (opens = 0 /\ pc \in {"main", "aborted"})

C7_State == pc = "aborted" => (err # "none" /\ outFile = outFile0 /\ opens <= 1)

C7_Step ==
    /\ err' # err => (err = "none" /\ pc' = "aborted" /\ outFile' = outFile /\ schema' = schema)
    /\ pc # "aborted"

\* C7: a step that raises ends the run at once with the output file as it
\* was before the run; from the aborted state no further step is taken (no
\* retry, no later table or database), and at most one connection was tried.
C7_HardFailure == []C7_State /\ [][C7_Step]_vars

\* a sampling query failed after a table had been filed; the old file stands
C7_Witness ==
    /\ pc = "aborted" /\ err = "sample"
    /\ outFile0 = OldFile /\ outFile = OldFile
    /\ \E db \in DOMAIN schema : schema[db].tables # EmptyMap

SamplesOk(T, d) ==
    LET data == ColumnData(ColumnOf(T, d.name), server.nrows)
        present == {Str(data[i]) : i \in {r \in DOMAIN data : data[r].k # "null"}}
    IN  /\ Len(d.value_samples) <= 5
        /\ \A n \in DOMAIN d.value_samples :
              d.value_samples[n] \in present /\ d.value_samples[n] # Str(NULL)
        /\ present = {} => d.value_samples = <<>>

\* C8: value_samples of every column built has at most 5 elements, each the
\* rendering of a non-null value of that column and none the rendering of a
\* null; a column without non-null values has none.
C8_ValueSamples == \A d \in Described : SamplesOk(d[1], d[2])

\* six rows: five samples for the full column, none for the all-null one
C8_Witness ==
    /\ pc = "done" /\ server.nrows > 5
    /\ \E d1, d2 \in Described :
          /\ d1[1] = d2[1]
          /\ Len(d1[2].value_samples) = 5
          /\ d2[2].value_samples = <<>>

\* C9 as claimed: with several live names equal but for case and none equal
\* to T, the name filled is the first of them in sorted order.
C9_FirstMatchWins ==
    (Filling /\ CurName \notin Live /\ Cardinality(Matches(CurName)) >= 2)
        => table = FirstOf(Matches(CurName))

\* C9 amended: with several live names equal but for case and none equal to
\* T, the name filled is the last of them in sorted order (the last entry put
\* into the lower-case mapping wins).
C9_LastMatchWins ==
    (Filling /\ CurName \notin Live /\ Cardinality(Matches(CurName)) >= 2)
        => table = LastOf(Matches(CurName))

\* the manifest says cu, the server has CU and Cu, and Cu is filled
C9_Witness ==
    /\ Filling /\ CurName = T_cu /\ Live = {T_CU, T_Cu} /\ table = T_Cu

\* C10: in every database record each key is a live name and the name of the
\* record under it, there are no more entries than names dealt with, and two
\* names resolving to the one live table share one entry.
C10_KeyedByLiveName ==
    \A i \in DOMAIN dev_tables_json : Started(i) =>
        LET tabs == TablesOf(i)
        IN  /\ \A key \in DOMAIN tabs : key \in Live /\ tabs[key].name = key
            /\ Cardinality(DOMAIN tabs) <= Done(i)
            /\ \A j1, j2 \in 1..Done(i) :
                  (/\ NamesOf(i)[j1] # NamesOf(i)[j2]
                   /\ Matches(NamesOf(i)[j1]) = Matches(NamesOf(i)[j2])
                   /\ Cardinality(Matches(NamesOf(i)[j1])) = 1)
                    => Cardinality({key \in DOMAIN tabs : Lower(key) = Lower(NamesOf(i)[j1])}) = 1

\* Cu and cu both expected, only Cu live: one entry
C10_Witness ==
    \E i \in DOMAIN dev_tables_json :
        /\ Done(i) = 2 /\ NamesOf(i) = <<T_Cu, T_cu>>
        /\ Live = {T_Cu}
        /\ DOMAIN TablesOf(i) = {T_Cu}

====
